---- MODULE Spec2Model ----
(***************************************************************************)
(* Model of the sarlacc surface descriptor code:                           *)
(*   hstools/decompose.py  make_invariants, sht_isosurface,                *)
(*                         reconstruct_surface, surface_description, main  *)
(*   libsarlacc/mesh.py    construct_surface, bounds, inside               *)
(*   src/calc.py           get_dist_mat, cluster                           *)
(* Numbers are exact rationals <<n, d>> in lowest terms with d >= 0; a     *)
(* denominator of 0 carries the non-finite values numpy produces instead   *)
(* of raising: <<0,0>> is NaN, <<1,0>> is +Inf, <<-1,0>> is -Inf.          *)
(* IEEE rounding is not modelled.  Complex numbers are pairs <<re, im>>    *)
(* of such rationals.                                                      *)
(***************************************************************************)
EXTENDS Integers, Sequences, FiniteSets, TLC

VARIABLES
    \* make_invariants
    coefficients,   \* the coefficient vector of a surface
    rotated,        \* the coefficient vector of the same surface, rotated
    invariants,     \* [{"orig","rot"} -> result of make_invariants, or NoValue]
    \* decompose.main, the batch run
    fails,          \* the paths whose surface_description raises
    jobs,           \* [path -> state of its future]
    mainpc,         \* position of main
    yielded,        \* the futures as_completed has yielded so far
    shapes,         \* the list main appends results to
    output,         \* the shapes file: [written, shapes]
    \* sht_isosurface and reconstruct_surface on one surface file
    mesh,           \* the file read: [verts, faces, prop]
    surf,           \* the call of sht_isosurface: its status and what it returned
    recon,          \* the call of reconstruct_surface: [done, radius, colors]
    \* surface_description on one surface file
    sbf_file,       \* the file name passed, a sequence of characters
    description,    \* the call of surface_description: its status and the Shape
    \* libsarlacc/mesh.py, construct_surface
    voxels,         \* the call of construct_surface: its arguments and locals
    \* src/calc.py
    distmat,        \* the call of get_dist_mat: its arguments and locals
    clustering      \* the call of cluster: its arguments and locals

invVars == <<coefficients, rotated, invariants>>
batchVars == <<fails, jobs, mainpc, yielded, shapes, output>>
surfVars == <<mesh, surf, recon>>
descVars == <<sbf_file, description>>
meshVars == <<voxels>>
calcVars == <<distmat, clustering>>
vars == <<invVars, batchVars, surfVars, descVars, meshVars, calcVars>>

\* a result not computed yet (every computed result is a non-empty sequence)
NoValue == <<>>

-----------------------------------------------------------------------------
(* Rational arithmetic with numpy's non-finite values *)

Abs(x) == IF x < 0 THEN -x ELSE x

Sign(x) == IF x < 0 THEN -1 ELSE IF x > 0 THEN 1 ELSE 0

Min2(a, b) == IF a <= b THEN a ELSE b

RECURSIVE Gcd(_, _)
Gcd(a, b) == IF b = 0 THEN a ELSE Gcd(b, a % b)

\* the rational n/d in canonical form
Rat(n, d) ==
    IF d = 0 THEN <<Sign(n), 0>>
    ELSE LET g == Gcd(Abs(n), Abs(d))
             s == Sign(d)
         IN  <<(s * n) \div g, (s * d) \div g>>

RInt(k) == <<k, 1>>
RZero == <<0, 1>>
RNaN == <<0, 0>>

IsNaN(a) == a = RNaN
IsFinite(a) == a[2] # 0

\* a + b of two finite rationals over the least common denominator, g the
\* greatest common divisor of the denominators
AddOver(a, b, g) ==
    Rat(a[1] * (b[2] \div g) + b[1] * (a[2] \div g), (a[2] \div g) * b[2])

RAdd(a, b) ==
    IF a[2] = 0 /\ b[2] = 0
    THEN (IF a = b THEN a ELSE RNaN)
    ELSE IF a[2] = 0 \/ b[2] = 0
    THEN Rat(a[1] * b[2] + b[1] * a[2], 0)
    ELSE AddOver(a, b, Gcd(a[2], b[2]))

RNeg(a) == <<-a[1], a[2]>>

RSub(a, b) == RAdd(a, RNeg(b))

\* a * b of two finite rationals, the common divisors g of a's numerator
\* and b's denominator and h of b's numerator and a's denominator removed
MulOver(a, b, g, h) ==
    Rat((a[1] \div g) * (b[1] \div h), (a[2] \div h) * (b[2] \div g))

RMul(a, b) ==
    IF a[2] = 0 \/ b[2] = 0
    THEN Rat(a[1] * b[1], 0)
    ELSE MulOver(a, b, Gcd(Abs(a[1]), b[2]), Gcd(Abs(b[1]), a[2]))

\* numpy float division: x/0 is +-Inf, 0/0 is NaN, nothing is raised
RDiv(a, b) ==
    IF b[2] = 0
    THEN (IF b[1] = 0 \/ a[2] = 0 THEN RNaN ELSE RZero)
    ELSE Rat(a[1] * b[2] * Sign(b[1]), a[2] * Abs(b[1]))

\* comparisons with NaN are false
RLt(a, b) ==
    /\ ~IsNaN(a)
    /\ ~IsNaN(b)
    /\ IF a[2] = 0 /\ b[2] = 0 THEN a[1] < b[1]
       ELSE IF a[2] = 0 THEN a[1] < 0
       ELSE IF b[2] = 0 THEN b[1] > 0
       ELSE a[1] * b[2] < b[1] * a[2]

RLe(a, b) == RLt(a, b) \/ (a = b /\ ~IsNaN(a))

RAbs(a) == <<Abs(a[1]), a[2]>>

RECURSIVE RSum(_)
RSum(s) == IF s = <<>> THEN RZero ELSE RAdd(s[1], RSum(Tail(s)))

-----------------------------------------------------------------------------
(* Complex arithmetic *)

Cx(re, im) == <<re, im>>
CInt(a, b) == <<RInt(a), RInt(b)>>
Re(c) == c[1]
Im(c) == c[2]
CConj(c) == <<c[1], RNeg(c[2])>>
CAdd(a, b) == <<RAdd(a[1], b[1]), RAdd(a[2], b[2])>>
CMul(a, b) == <<RSub(RMul(a[1], b[1]), RMul(a[2], b[2])),
                RAdd(RMul(a[1], b[2]), RMul(a[2], b[1]))>>
CScale(r, c) == <<RMul(r, c[1]), RMul(r, c[2])>>
CZero == <<RZero, RZero>>

RECURSIVE CSum(_)
CSum(s) == IF s = <<>> THEN CZero ELSE CAdd(s[1], CSum(Tail(s)))

\* |c|^2
AbsSq(c) == RAdd(RMul(c[1], c[1]), RMul(c[2], c[2]))

-----------------------------------------------------------------------------
(* make_invariants *)

\* int(np.sqrt(n)) for a non-negative integer n
IntSqrt(n) == CHOOSE k \in 0..n : k * k <= n /\ (k + 1) * (k + 1) > n

\* the Python slice s[lo:hi] of a sequence (0-based, hi exclusive, clipped)
PySlice(s, lo, hi) ==
    LET h == Min2(hi, Len(s))
    IN  IF lo >= h THEN <<>> ELSE [k \in 1..(h - lo) |-> s[lo + k]]

\* coefficients[l:u+1] with l, u = i**2, (i+1)**2
DegreeSlice(coeffs, i) == PySlice(coeffs, i * i, (i + 1) * (i + 1) + 1)

\* make_invariants with np.conj left out of the product (faulty variant)
make_invariants_squared(coeffs) ==
    LET size == IntSqrt(Len(coeffs))
    IN  [k \in 1..size |->
            LET sl == DegreeSlice(coeffs, k - 1)
            IN  Re(CSum([j \in 1..Len(sl) |-> CMul(sl[j], sl[j])]))]

make_invariants(coeffs) ==
    LET size == IntSqrt(Len(coeffs))
    IN  [k \in 1..size |->
            LET sl == DegreeSlice(coeffs, k - 1)
            IN  Re(CSum([j \in 1..Len(sl) |-> CMul(sl[j], CConj(sl[j]))]))]

-----------------------------------------------------------------------------
(* Inputs of make_invariants *)

\* largest maximum angular order L of the coefficient vectors tried
MaxL == 1

CoefValues == {CInt(0, 0), CInt(1, 2), CInt(0, -1)}

NumCoef(L) == (L + 1) * (L + 1)

CoefVectors == UNION {[1..NumCoef(L) -> CoefValues] : L \in 0..MaxL}

\* degree and order of the coefficient at 1-based position p
DegreeOf(p) == IntSqrt(p - 1)
OrderOf(p) == (p - 1) - DegreeOf(p) * DegreeOf(p) - DegreeOf(p)

\* position of coefficient (l, m): index l^2 + l + m, 1-based
PosOf(l, m) == l * l + l + m + 1

\* (-i)^m
RECURSIVE PhaseQuarter(_)
PhaseQuarter(m) ==
    IF m = 0 THEN CInt(1, 0)
    ELSE IF m > 0 THEN CMul(CInt(0, -1), PhaseQuarter(m - 1))
    ELSE CMul(CInt(0, 1), PhaseQuarter(m + 1))

\* Coefficients of the surface after a rotation.  "zquarter": a quarter turn
\* about the polar axis multiplies coefficient (l, m) by (-i)^m.  "swap":
\* the orders m and -m are exchanged inside every degree.  Both mix
\* coefficients only within a degree and keep the sum of |c|^2 of the degree.
RotateCoefficients(c, how) ==
    [p \in 1..Len(c) |->
        IF how = "swap" THEN c[PosOf(DegreeOf(p), -OrderOf(p))]
        ELSE CMul(PhaseQuarter(OrderOf(p)), c[p])]

Rotations == {"zquarter", "swap"}

\* power of degree l: the sum over m in -l..l of |coefficient(l, m)|^2
RECURSIVE PowerFrom(_, _, _)
PowerFrom(c, l, m) ==
    IF m > l THEN RZero
    ELSE RAdd(AbsSq(c[PosOf(l, m)]), PowerFrom(c, l, m + 1))

DegreePower(c, l) == PowerFrom(c, l, -l)

-----------------------------------------------------------------------------
(* Specification of the invariant extractor *)

IdleInvariants ==
    /\ coefficients = <<>>
    /\ rotated = <<>>
    /\ invariants = <<>>

IdleBatch ==
    /\ fails = {}
    /\ jobs = <<>>
    /\ mainpc = "idle"
    /\ yielded = {}
    /\ shapes = <<>>
    /\ output = [written |-> FALSE, shapes |-> <<>>]

IdleSurface ==
    /\ mesh = <<>>
    /\ surf = [status |-> "idle"]
    /\ recon = [done |-> FALSE]

IdleDescription ==
    /\ sbf_file = <<>>
    /\ description = [status |-> "idle"]

IdleMesh == voxels = [pc |-> "idle"]

IdleCalc ==
    /\ distmat = [pc |-> "idle"]
    /\ clustering = [pc |-> "idle"]

InitInvariants ==
    /\ IdleBatch
    /\ IdleSurface
    /\ IdleDescription
    /\ IdleMesh
    /\ IdleCalc
    /\ coefficients \in CoefVectors
    /\ \E how \in Rotations : rotated = RotateCoefficients(coefficients, how)
    /\ invariants = [w \in {"orig", "rot"} |-> NoValue]

\* one call of make_invariants, on the vector of the surface or of its rotation
MakeInvariants(w) ==
    /\ invariants[w] = NoValue
    /\ invariants' = [invariants EXCEPT ![w] =
            make_invariants(IF w = "orig" THEN coefficients ELSE rotated)]
    /\ UNCHANGED <<coefficients, rotated, batchVars, surfVars, descVars, meshVars, calcVars>>

NextInvariants == \E w \in {"orig", "rot"} : MakeInvariants(w)

SpecInvariants == InitInvariants /\ [][NextInvariants]_vars

-----------------------------------------------------------------------------
(* Vectors and numpy reductions *)

\* np.sqrt of a rational whose numerator and denominator are squares (the
\* meshes tried are those whose vertex radii are rational)
RECURSIVE SqrtFrom(_, _)
SqrtFrom(n, k) == IF k * k >= n THEN k ELSE SqrtFrom(n, k + 1)
ISqrt(n) == SqrtFrom(n, 0)
IsSquare(n) == ISqrt(n) * ISqrt(n) = n
RSqrt(a) == IF a[2] = 0 THEN a ELSE <<ISqrt(a[1]), ISqrt(a[2])>>

\* a numpy array: the sequence s with every element evaluated, once
Arr(s) == SubSeq(s, 1, Len(s))

\* np.mean of a non-empty array
MeanOf(s) == RDiv(RSum(s), RInt(Len(s)))

\* np.min and np.max of a non-empty array; a NaN entry makes the result NaN
RECURSIVE MinOf(_)
MinOf(s) ==
    IF Len(s) = 1 THEN s[1]
    ELSE LET r == MinOf(Tail(s))
         IN  IF IsNaN(s[1]) \/ IsNaN(r) THEN RNaN
             ELSE IF RLt(r, s[1]) THEN r ELSE s[1]

RECURSIVE MaxOf(_)
MaxOf(s) ==
    IF Len(s) = 1 THEN s[1]
    ELSE LET r == MaxOf(Tail(s))
         IN  IF IsNaN(s[1]) \/ IsNaN(r) THEN RNaN
             ELSE IF RLt(s[1], r) THEN r ELSE s[1]

\* x**2 + y**2 + z**2
SqNorm(v) == RAdd(RAdd(RMul(v[1], v[1]), RMul(v[2], v[2])), RMul(v[3], v[3]))

\* squared Euclidean distance of two points
SqDist(u, v) == SqNorm(<<RSub(u[1], v[1]), RSub(u[2], v[2]), RSub(u[3], v[3])>>)

VecFinite(v) == \A k \in 1..3 : IsFinite(v[k])

-----------------------------------------------------------------------------
(* sht_isosurface: recentering and scaling to unit mean radius *)
(* An intermediate array of the function is a parameter of the operator    *)
(* that models the statements after it.                                    *)

\* center = np.mean(pts, axis=0)
Column(pts, k) == Arr([i \in 1..Len(pts) |-> pts[i][k]])
Center(pts) ==
    <<MeanOf(Column(pts, 1)), MeanOf(Column(pts, 2)), MeanOf(Column(pts, 3))>>

\* pts -= center
Shifted(pts, center) ==
    Arr([i \in 1..Len(pts) |->
            <<RSub(pts[i][1], center[1]), RSub(pts[i][2], center[2]),
              RSub(pts[i][3], center[3])>>])

Recentered(pts) == Shifted(pts, Center(pts))

\* norms = np.sqrt(pts[:, 0] ** 2 + pts[:, 1] ** 2 + pts[:, 2] ** 2)
NormsOf(pts) == Arr([i \in 1..Len(pts) |-> RSqrt(SqNorm(pts[i]))])

\* a row of pts / d
VecDiv(v, d) == <<RDiv(v[1], d), RDiv(v[2], d), RDiv(v[3], d)>>

\* pts_normalized = pts / np.reshape(norms, (pts.shape[0], 1))
WithDirections(mean_norm, pts, norms) ==
    [mean_norm |-> mean_norm,
     pts |-> pts,
     norms |-> norms,
     pts_normalized |-> Arr([i \in 1..Len(pts) |-> VecDiv(pts[i], norms[i])])]

\* pts /= mean_norm; norms /= mean_norm
ScaledBy(mean_norm, pts, norms) ==
    WithDirections(mean_norm,
                   Arr([i \in 1..Len(pts) |-> VecDiv(pts[i], mean_norm)]),
                   Arr([i \in 1..Len(norms) |-> RDiv(norms[i], mean_norm)]))

\* mean_norm = np.sum(norms) (faulty variant)
ScaledToUnitSum(pts, norms) == ScaledBy(RSum(norms), pts, norms)

\* mean_norm = np.mean(norms)
ScaledToUnit(pts, norms) == ScaledBy(MeanOf(norms), pts, norms)

WithNorms(pts) == ScaledToUnit(pts, NormsOf(pts))

\* the state of sht_isosurface after  pts_normalized = pts / norms :
\* mean_norm, the scaled points and radii, and the unit directions
Normalize(verts) == WithNorms(Recentered(verts))

-----------------------------------------------------------------------------
(* The canonical grid and the transform of SHT(l_max) *)

\* grid_cartesian: the unit directions of the 6-point octahedral quadrature
GridCartesian ==
    << <<RInt(1), RInt(0), RInt(0)>>, <<RInt(-1), RInt(0), RInt(0)>>,
       <<RInt(0), RInt(1), RInt(0)>>, <<RInt(0), RInt(-1), RInt(0)>>,
       <<RInt(0), RInt(0), RInt(1)>>, <<RInt(0), RInt(0), RInt(-1)>> >>

NGrid == Len(GridCartesian)

GridIdx == 1..NGrid

\* quadrature weight of every grid direction
GridWeight == Rat(1, NGrid)

\* The harmonics of degree 0 and 1 at direction d = (x, y, z), in packing
\* order (l, m) = (0,0), (1,-1), (1,0), (1,1): 1, x - iy, z, -(x + iy).
\* The degree-1 functions are carried without their positive normalisation
\* constant, which is irrational.
Harmonics(d) ==
    << Cx(RInt(1), RZero),
       Cx(d[1], RNeg(d[2])),
       Cx(d[3], RZero),
       Cx(RNeg(d[1]), RNeg(d[2])) >>

\* the basis table: the harmonics at every grid direction
GridHarmonics == Arr([g \in 1..Len(GridCartesian) |-> Harmonics(GridCartesian[g])])

NumHarmonics == Len(GridHarmonics[1])

\* sht.analyse: coefficient (l, m) is the weighted sum over the grid of the
\* sample times the conjugate harmonic
analyse(f) ==
    Arr([p \in 1..NumHarmonics |->
        CScale(GridWeight,
               CSum(Arr([g \in GridIdx |->
                        CMul(f[g], CConj(GridHarmonics[g][p]))])))])

\* sht.synthesis: the truncated series at every grid direction
synthesis(coeffs) ==
    Arr([g \in GridIdx |->
        CSum(Arr([p \in 1..Len(coeffs) |->
            CMul(coeffs[p], GridHarmonics[g][p])]))])

-----------------------------------------------------------------------------
(* sht_isosurface: nearest-neighbour sampling *)

\* squared distance of every tree point from grid direction g
DistancesTo(ptsn, g) ==
    Arr([i \in 1..Len(ptsn) |-> SqDist(ptsn[i], GridCartesian[g])])

\* a point at distance d[i] is a neighbour no other point beats; the test
\* written as "no point is strictly nearer", which a NaN distance passes
AtLeastAny(d) ==
    {i \in 1..Len(d) : \A j \in 1..Len(d) : ~RLt(d[j], d[i])}

\* the points at the least distance; a distance that is NaN compares false
\* with every bound, so such a point is never a neighbour
AtLeast(d) ==
    {i \in 1..Len(d) :
        /\ ~IsNaN(d[i])
        /\ \A j \in 1..Len(d) : ~IsNaN(d[j]) => RLe(d[i], d[j])}

\* The vertices tree.query(g, 1) may return for grid direction g: a vertex
\* whose unit direction is at the least distance from g.  Faulty variant: a vertex
\* with a NaN direction passes as nearest.
NearestOfAny(ptsn, g) == AtLeastAny(DistancesTo(ptsn, g))

NearestOf(ptsn, g) == AtLeast(DistancesTo(ptsn, g))

\* what tree.query reports for the candidates near of one grid direction: one
\* of them, or for a missing neighbour the index n (here n + 1, one past the
\* last vertex)
OrMissing(near, n) == IF near = {} THEN {n + 1} ELSE near

QueryOne(ptsn, g) == OrMissing(NearestOf(ptsn, g), Len(ptsn))

\* nn[1] of tree.query(grid_cartesian, 1): one index per grid direction,
\* ties between equally near vertices broken in any way
RECURSIVE QueryUpTo(_, _)
QueryUpTo(cand, g) ==
    IF g = 0 THEN {<<>>}
    ELSE {Append(nn, i) : nn \in QueryUpTo(cand, g - 1), i \in cand[g]}

QueryResults(ptsn) ==
    QueryUpTo(Arr([g \in GridIdx |-> QueryOne(ptsn, g)]), NGrid)

\* _interpolate(idxs, norms), as the mean over two entries (faulty variant)
InterpolateBlend(idxs, norms) ==
    MeanOf(<<norms[idxs], norms[(idxs % Len(norms)) + 1]>>)

\* _interpolate(idxs, norms) = np.mean(norms[idxs]), idxs one index
Interpolate(idxs, norms) == MeanOf(<<norms[idxs]>>)

\* values_from_grid(vals, ix)
values_from_grid(vals, ix) ==
    Arr([g \in 1..Len(ix) |-> Interpolate(ix[g], vals)])

\* norms[idxs] raises IndexError for an index past the end
IndexError(nn, n) == \E g \in 1..Len(nn) : nn[g] > n

\* KDTree(pts_normalized) of a scipy that checks its input raises ValueError
\* ("data must be finite") when a coordinate is NaN or Inf
HasNonFinite(ptsn) == \E i \in 1..Len(ptsn) : ~VecFinite(ptsn[i])

-----------------------------------------------------------------------------
(* sht_isosurface: property normalisation and packing *)

\* prop_min = np.min(property_values), as the maximum (faulty variant)
PropMinWrong(property_values) == MaxOf(property_values)

\* prop_min = np.min(property_values)
PropMin(property_values) == MinOf(property_values)

\* prop_scale = np.abs(np.max(property_values) - np.min(property_values))
PropScale(property_values) ==
    RAbs(RSub(MaxOf(property_values), MinOf(property_values)))

\* property_values -= prop_min; property_values /= prop_scale, the division
\* done also for a zero scale (faulty variant)
ShiftScaleUnguarded(property_values, prop_min, prop_scale) ==
    Arr([g \in 1..Len(property_values) |->
            RDiv(RSub(property_values[g], prop_min), prop_scale)])

\* property_values -= prop_min
\* if prop_scale != 0: property_values /= prop_scale
ShiftScale(property_values, prop_min, prop_scale) ==
    Arr([g \in 1..Len(property_values) |->
            IF prop_scale # RZero
            THEN RDiv(RSub(property_values[g], prop_min), prop_scale)
            ELSE RSub(property_values[g], prop_min)])

NormalizeProperty(property_values) ==
    ShiftScale(property_values, PropMin(property_values),
               PropScale(property_values))

\* combined.real = shape; combined.imag = property_values
Combine(shape, property_values) ==
    Arr([g \in 1..Len(shape) |-> Cx(shape[g], property_values[g])])

\* others = [mean_norm, prop_min, prop_scale]
\* coefficients = sht.analyse(combined); return name, others, coefficients
Returning(nn, others, combined) ==
    [status |-> "returned",
     nn |-> nn,
     others |-> others,
     combined |-> combined,
     coefficients |-> analyse(combined)]

Packed(st, nn, shape, property_values) ==
    Returning(nn,
              <<st.mean_norm, PropMin(property_values), PropScale(property_values)>>,
              Combine(shape, NormalizeProperty(property_values)))

\* what sht_isosurface returns for the file m, its state st after the
\* normalisation of the vertices and the query result nn
Describe(m, st, nn) ==
    Packed(st, nn, values_from_grid(st.norms, nn), values_from_grid(m.prop, nn))

-----------------------------------------------------------------------------
(* reconstruct_surface *)

\* colors[:] = radius.imag * color_scale, the offset left out (faulty variant)
ColorOfNoOffset(value, color_min, color_scale) == RMul(Im(value), color_scale)

\* colors[:] = radius.imag * color_scale + color_min
ColorOf(value, color_min, color_scale) ==
    RAdd(RMul(Im(value), color_scale), color_min)

\* verts[:, 0] = radius[:].imag (faulty variant)
RadiusOfImag(value) == Im(value)

\* verts[:, 0] = radius[:].real
RadiusOf(value) == Re(value)

\* spherical_to_cartesian of (r, theta, phi) with the angles of grid
\* direction g: r times the unit direction
SphericalToCartesian(r, g) ==
    <<RMul(r, GridCartesian[g][1]), RMul(r, GridCartesian[g][2]),
      RMul(r, GridCartesian[g][3])>>

\* the radii and colours reconstruct_surface returns for the field radius
Reconstructed(radius, color_min, color_scale) ==
    [done |-> TRUE,
     radius |-> Arr([g \in 1..Len(radius) |-> RadiusOf(radius[g])]),
     verts |-> Arr([g \in 1..Len(radius) |->
                       SphericalToCartesian(RadiusOf(radius[g]), g)]),
     colors |-> Arr([g \in 1..Len(radius) |->
                        ColorOf(radius[g], color_min, color_scale)])]

-----------------------------------------------------------------------------
(* Specification of the single-surface pipeline *)

\* largest number of vertices of the meshes tried
MaxVerts == 3

\* candidate vertex positions
Points ==
    << <<0, 0, 0>>, <<2, 3, 6>>, <<4, 6, 12>>, <<10, 15, 30>>,
       <<-1, 0, 0>>, <<1, 0, 0>>, <<-2, 3, -6>>, <<0, -6, 0>> >>

\* values of the scalar property
PropValues == {-1, 0, 2}

\* the elements of a set of indices, in increasing order
RECURSIVE Sorted(_)
Sorted(S) ==
    IF S = {} THEN <<>>
    ELSE LET lo == CHOOSE x \in S : \A y \in S : x <= y
         IN  <<lo>> \o Sorted(S \ {lo})

ToRat(v) == <<RInt(v[1]), RInt(v[2]), RInt(v[3])>>

PointsAt(idx) == Arr([i \in 1..Len(idx) |-> ToRat(Points[idx[i]])])

\* vertex arrays: up to MaxVerts distinct candidate positions
VertexArrays ==
    {PointsAt(Sorted(S)) :
        S \in {T \in SUBSET (1..Len(Points)) :
                 Cardinality(T) >= 1 /\ Cardinality(T) <= MaxVerts}}

\* the radii of the recentered vertices are rational
SquareRadii(pts) ==
    \A i \in 1..Len(pts) :
        IsSquare(SqNorm(pts[i])[1]) /\ IsSquare(SqNorm(pts[i])[2])

ExactRadii(verts) == SquareRadii(Recentered(verts))

\* face arrays as stored in the file (1-based vertex indices): one triangle
\* within the vertex range, or one with an index past the last vertex
FaceArrays(n) == { << <<1, n, 1>> >>, << <<1, n + 1, 1>> >> }

\* f.read(): the vertices, faces and property of the file
FileRead ==
    \E verts \in VertexArrays :
       /\ ExactRadii(verts)
       /\ \E faces \in FaceArrays(Len(verts)) :
          \E prop \in [1..Len(verts) -> {RInt(v) : v \in PropValues}] :
             mesh = [verts |-> verts, faces |-> faces, prop |-> Arr(prop)]

InitSurface ==
    /\ IdleInvariants
    /\ IdleBatch
    /\ IdleDescription
    /\ IdleMesh
    /\ IdleCalc
    /\ FileRead
    /\ surf = [status |-> "ready"]
    /\ recon = [done |-> FALSE]

\* sht_isosurface from  tree = KDTree(pts_normalized)  on.  rejects: the
\* KDTree constructor of the installed scipy refuses non-finite data.
Resample(st) ==
    \E rejects \in BOOLEAN :
    \E nn \in QueryResults(st.pts_normalized) :
        surf' = IF rejects /\ HasNonFinite(st.pts_normalized)
                THEN [status |-> "raised", error |-> "ValueError"]
                ELSE IF IndexError(nn, Len(mesh.verts))
                THEN [status |-> "raised", error |-> "IndexError"]
                ELSE Describe(mesh, st, nn)

\* one call of sht_isosurface on the file
ShtIsosurface ==
    /\ surf.status = "ready"
    /\ Resample(Normalize(mesh.verts))
    /\ UNCHANGED <<mesh, recon, invVars, batchVars, descVars, meshVars, calcVars>>

ColorArgs == {"default", "stored"}

\* one call of reconstruct_surface on the coefficients returned, with the
\* default colour arguments or the stored property minimum and range
ReconstructSurface(args) ==
    /\ surf.status = "returned"
    /\ ~recon.done
    /\ recon' = Reconstructed(synthesis(surf.coefficients),
                              IF args = "stored" THEN surf.others[2] ELSE RInt(0),
                              IF args = "stored" THEN surf.others[3] ELSE RInt(1))
    /\ UNCHANGED <<mesh, surf, invVars, batchVars, descVars, meshVars, calcVars>>

Next ==
    \/ ShtIsosurface
    \/ \E args \in ColorArgs : ReconstructSurface(args)

Init == InitSurface

Spec == Init /\ [][Next]_vars

-----------------------------------------------------------------------------
(* Specification of reconstruct_surface on coefficient vectors of any origin *)

\* coefficient vectors of the order of the grid
GridCoefVectors == [1..NumHarmonics -> CoefValues]

\* the scalars stored with a coefficient vector
StoredScalars ==
    { <<RInt(1), RInt(0), RInt(1)>>, <<RInt(2), RInt(-1), RInt(3)>> }

InitReconstruct ==
    /\ IdleInvariants
    /\ IdleBatch
    /\ IdleDescription
    /\ IdleMesh
    /\ IdleCalc
    /\ mesh = <<>>
    /\ \E c \in GridCoefVectors : \E others \in StoredScalars :
          surf = [status |-> "returned", others |-> others,
                  coefficients |-> Arr(c)]
    /\ recon = [done |-> FALSE]

NextReconstruct == \E args \in ColorArgs : ReconstructSurface(args)

SpecReconstruct == InitReconstruct /\ [][NextReconstruct]_vars

-----------------------------------------------------------------------------
(* surface_description *)

\* the final component of a path: what follows its last "/"
FinalComponent(path) ==
    IF \E i \in 1..Len(path) : path[i] = "/"
    THEN SubSeq(path, 1 + (CHOOSE i \in 1..Len(path) :
                              /\ path[i] = "/"
                              /\ \A j \in (i + 1)..Len(path) : path[j] # "/"),
                Len(path))
    ELSE path

\* the final component without its last suffix; a dot that leads or ends
\* the name starts no suffix
StemOf(name) ==
    IF \E i \in 2..(Len(name) - 1) : name[i] = "."
    THEN SubSeq(name, 1, (CHOOSE i \in 2..(Len(name) - 1) :
                              /\ name[i] = "."
                              /\ \A j \in (i + 1)..(Len(name) - 1) : name[j] # ".") - 1)
    ELSE name

\* name = Path(filename).stem
Stem(filename) == StemOf(FinalComponent(filename))

\* np.append(arr, values): the values after the array (faulty variant)
InsertAfter(arr, obj, values) == arr \o values

\* np.insert(arr, obj, values): the values before index obj (0-based)
Insert(arr, obj, values) ==
    SubSeq(arr, 1, obj) \o values \o SubSeq(arr, obj + 1, Len(arr))

\* what surface_description makes of the result r of sht_isosurface
Described(filename, r) ==
    IF r.status = "returned"
    THEN [status |-> "returned",
          name |-> Stem(filename),
          invariants |-> Insert(make_invariants(r.coefficients), 0, r.others)]
    ELSE [status |-> "raised", error |-> r.error]

\* file names passed to surface_description
FileNames ==
    { <<"a", ".", "s">>, <<"d", ".", "x", "/", "b", ".", "t", ".", "s">>,
      <<".", "h">> }

InitDescription ==
    /\ IdleInvariants
    /\ IdleBatch
    /\ IdleMesh
    /\ IdleCalc
    /\ FileRead
    /\ surf = [status |-> "ready"]
    /\ recon = [done |-> FALSE]
    /\ sbf_file \in FileNames
    /\ description = [status |-> "ready"]

\* one call of surface_description on the file: sht_isosurface, then
\* make_invariants and the insertion of the three scalars
SurfaceDescription ==
    /\ description.status = "ready"
    /\ surf.status = "ready"
    /\ Resample(Normalize(mesh.verts))
    /\ description' = Described(sbf_file, surf')
    /\ UNCHANGED <<mesh, recon, sbf_file, invVars, batchVars, meshVars, calcVars>>

NextDescription == SurfaceDescription

SpecDescription == InitDescription /\ [][NextDescription]_vars

-----------------------------------------------------------------------------
(* libsarlacc/mesh.py: construct_surface, bounds and the lattice of inside *)

\* bounds: val * 1.5 if val > 1.0 else 1.5, val the largest value of the
\* degree-0 term over the angular grid
Bounds(val) ==
    IF RLt(RInt(1), val) THEN RMul(val, Rat(3, 2)) ELSE Rat(3, 2)

\* sepx = r * 2 / M
Sep(r, m) == RDiv(RMul(r, RInt(2)), RInt(m))

\* sepx * (M - 1) / 2 (faulty variant)
CenterOfPoints(sep, m) == RDiv(RMul(sep, RInt(m - 1)), RInt(2))

\* sepx * M / 2
CenterOf(sep, m) == RDiv(RMul(sep, RInt(m)), RInt(2))

\* x = (x - vol[0]/2) * sep[0] at voxel index x, with true division
InsideCoord(x, m, sep) == RMul(RSub(RInt(x), RDiv(RInt(m), RInt(2))), sep)

\* inside: the coordinates along one axis of the voxels with indices
\* 0..m-1 of np.indices
InsideAxis(m, sep) == Arr([i \in 1..m |-> InsideCoord(i - 1, m, sep)])

\* marching_cubes(volume, iso_level, sep): a vertex at voxel coordinate v
\* comes out at v times the spacing
MarchingVertex(v, sep) ==
    <<RMul(v[1], sep[1]), RMul(v[2], sep[2]), RMul(v[3], sep[3])>>

\* verts -= center
Recenter(vert, center) ==
    <<RSub(vert[1], center[1]), RSub(vert[2], center[2]),
      RSub(vert[3], center[3])>>

\* the locals of construct_surface after  verts -= center , for the volume
\* vol, the radius r of bounds, the spacing sep and a vertex that
\* marching_cubes places at voxel coordinate v
Constructed(vol, r, sep, v) ==
    [pc |-> "done",
     vol |-> vol,
     r |-> r,
     sep |-> sep,
     center |-> <<CenterOf(sep[1], vol[1]), CenterOf(sep[2], vol[2]),
                  CenterOf(sep[3], vol[3])>>,
     coords |-> <<InsideAxis(vol[1], sep[1]), InsideAxis(vol[2], sep[2]),
                  InsideAxis(vol[3], sep[3])>>,
     v |-> v,
     vert |-> Recenter(MarchingVertex(v, sep),
                       <<CenterOf(sep[1], vol[1]), CenterOf(sep[2], vol[2]),
                         CenterOf(sep[3], vol[3])>>)]

ConstructFrom(vol, r, v) ==
    Constructed(vol, r, <<Sep(r, vol[1]), Sep(r, vol[2]), Sep(r, vol[3])>>, v)

\* largest number of voxels along an axis
MaxRes == 3

\* largest values of the degree-0 term over the angular grid
BoundValues == {Rat(1, 2), RInt(1), RInt(2), Rat(7, 3)}

\* voxel coordinates along an axis of m voxels at which marching_cubes may
\* place a vertex: the voxel indices and the midpoints between them
VoxelCoords(m) == {Rat(k, 2) : k \in 0..(2 * (m - 1))}

InitMesh ==
    /\ IdleInvariants
    /\ IdleBatch
    /\ IdleSurface
    /\ IdleDescription
    /\ IdleCalc
    /\ \E vol \in (1..MaxRes) \X (1..MaxRes) \X (1..MaxRes) :
       \E val \in BoundValues :
          voxels = [pc |-> "ready", vol |-> vol, val |-> val]

\* one call of construct_surface
ConstructSurface ==
    /\ voxels.pc = "ready"
    /\ \E v \in VoxelCoords(voxels.vol[1]) \X VoxelCoords(voxels.vol[2])
                  \X VoxelCoords(voxels.vol[3]) :
          voxels' = ConstructFrom(voxels.vol, Bounds(voxels.val), v)
    /\ UNCHANGED <<invVars, batchVars, surfVars, descVars, calcVars>>

NextMesh == ConstructSurface

SpecMesh == InitMesh /\ [][NextMesh]_vars

-----------------------------------------------------------------------------
(* src/calc.py: get_dist_mat *)

\* the pairs (a, b) of list(combinations(range(n), 2)) with first member a,
\* positions counted from 1
PairsWith(n, a) == [j \in 1..(n - a) |-> <<a, a + j>>]

\* list(combinations(values, 2)) from first member a on: the pairs a < b of
\* positions in lexicographic order
RECURSIVE CombinationsFrom(_, _)
CombinationsFrom(n, a) ==
    IF a >= n THEN <<>> ELSE PairsWith(n, a) \o CombinationsFrom(n, a + 1)

Combinations(n) == CombinationsFrom(n, 1)

\* the sums of the histograms tried, by position in values
HistSums == <<3, 1, 4, 1, 5, 9, 2, 6, 5, 3, 5, 8, 9, 7, 9, 3, 2, 3>>

Tests == {"hdistance", "spearman_roc", "kendall_tau"}

Max2(a, b) == IF a >= b THEN a ELSE b

\* test(pair).  hdistance: abs(np.sum(x - y)).  The correlations of
\* scipy.stats are stood for by ratios of the two sums that lie in [-1, 1]
\* and are 1 for equal sums.
TestValue(test, pair) ==
    IF test = "hdistance"
    THEN RInt(Abs(HistSums[pair[1]] - HistSums[pair[2]]))
    ELSE IF test = "spearman_roc"
    THEN Rat(Min2(HistSums[pair[1]], HistSums[pair[2]]),
             Max2(HistSums[pair[1]], HistSums[pair[2]]))
    ELSE Rat(2 * Min2(HistSums[pair[1]], HistSums[pair[2]])
                - Max2(HistSums[pair[1]], HistSums[pair[2]]),
             Max2(HistSums[pair[1]], HistSums[pair[2]]))

\* the size of a batch: c[i:i+100]
BatchSize == 100

\* c[i:i+100] with one pair left out at the boundary (faulty variant)
BatchAfter(c, i) == PySlice(c, i + 1, i + 1 + BatchSize)

\* batch = c[i:i+100]
BatchAt(c, i) == PySlice(c, i, i + BatchSize)

\* np.round(a, decimals) of a finite rational: to the nearest multiple of
\* 10^-decimals, halves to the even one; q is floor(a * 10^decimals)
RoundFrom(n, d, q, scale) ==
    IF 2 * (n - q * d) > d THEN Rat(q + 1, scale)
    ELSE IF 2 * (n - q * d) < d THEN Rat(q, scale)
    ELSE Rat(q + (q % 2), scale)

Round5(a) == RoundFrom(a[1] * 100000, a[2], (a[1] * 100000) \div a[2], 100000)

\* np.triu_indices(n, k=1): position of entry (r, c), r < c, in row-major
\* order of the upper triangle (1-based)
TriuPos(n, r, c) == (r - 1) * n - ((r - 1) * r) \div 2 + (c - r)

\* mat = np.identity(n); mat[np.triu_indices(n, k=1)] = vals
UpperAssigned(n, vals) ==
    Arr([r \in 1..n |-> Arr([c \in 1..n |->
        IF r = c THEN RInt(1)
        ELSE IF r < c THEN vals[TriuPos(n, r, c)]
        ELSE RZero])])

\* mat = (mat + mat.T) / 2
Symmetrized(n, mat) ==
    Arr([r \in 1..n |-> Arr([c \in 1..n |->
        RDiv(RAdd(mat[r][c], mat[c][r]), RInt(2))])])

\* mat = 1.0 - np.round(mat, decimals=5); np.fill_diagonal(mat, 0.0)
AsDistance(n, mat) ==
    Arr([r \in 1..n |-> Arr([c \in 1..n |->
        IF r = c THEN RZero ELSE RSub(RInt(1), Round5(mat[r][c]))])])

\* the matrix get_dist_mat returns for the results vals of test
MatrixOf(n, test, vals) ==
    IF test \in {"spearman_roc", "kendall_tau"}
    THEN AsDistance(n, Symmetrized(n, UpperAssigned(n, vals)))
    ELSE Symmetrized(n, UpperAssigned(n, vals))

\* largest number of values
MaxN == 15

InitDistMat ==
    /\ IdleInvariants
    /\ IdleBatch
    /\ IdleSurface
    /\ IdleDescription
    /\ IdleMesh
    /\ clustering = [pc |-> "idle"]
    /\ \E n \in 0..MaxN : \E test \in Tests :
          distmat = [pc |-> "start", n |-> n, test |-> test]

\* c = list(combinations(values, 2)); i = 0; batch = c[i:i+100]
MakeCombinations ==
    /\ distmat.pc = "start"
    /\ distmat' = [pc |-> "while", n |-> distmat.n, test |-> distmat.test,
                   c |-> Combinations(distmat.n), i |-> 0,
                   batch |-> BatchAt(Combinations(distmat.n), 0),
                   results |-> <<>>, taken |-> 0,
                   calls |-> <<>>, vals |-> <<>>]
    /\ UNCHANGED <<invVars, batchVars, surfVars, descVars, meshVars, clustering>>

\* while batch: executor.map(test, batch, timeout=30) submits every pair
\* of the batch; an empty batch ends the loop
WhileBatch ==
    /\ distmat.pc = "while"
    /\ distmat' = [distmat EXCEPT
                      !.pc = IF distmat.batch # <<>> THEN "map" ELSE "matrix",
                      !.results = <<>>, !.taken = 0]
    /\ UNCHANGED <<invVars, batchVars, surfVars, descVars, meshVars, clustering>>

\* a worker thread runs test on the next submitted pair of the batch
RunTest ==
    /\ distmat.pc = "map"
    /\ Len(distmat.results) < Len(distmat.batch)
    /\ distmat' = [distmat EXCEPT
          !.results = Append(@, TestValue(distmat.test,
                                          distmat.batch[Len(distmat.results) + 1])),
          !.calls = Append(@, distmat.batch[Len(distmat.results) + 1])]
    /\ UNCHANGED <<invVars, batchVars, surfVars, descVars, meshVars, clustering>>

\* for val in executor.map(...): vals.append(val); i += 1 , the results
\* taken in the order of the batch
TakeResult ==
    /\ distmat.pc = "map"
    /\ distmat.taken < Len(distmat.results)
    /\ distmat' = [distmat EXCEPT
          !.vals = Append(@, distmat.results[distmat.taken + 1]),
          !.i = @ + 1,
          !.taken = @ + 1]
    /\ UNCHANGED <<invVars, batchVars, surfVars, descVars, meshVars, clustering>>

\* the for loop is exhausted: batch = c[i:i+100]
NextBatchOf ==
    /\ distmat.pc = "map"
    /\ distmat.taken = Len(distmat.batch)
    /\ distmat' = [distmat EXCEPT
          !.batch = BatchAt(distmat.c, distmat.i), !.pc = "while"]
    /\ UNCHANGED <<invVars, batchVars, surfVars, descVars, meshVars, clustering>>

\* the rest of get_dist_mat: the matrix is built and returned, or None when
\* the results do not fill the upper triangle
BuildMatrix ==
    /\ distmat.pc = "matrix"
    /\ distmat' =
          IF Len(distmat.vals) # (distmat.n * (distmat.n - 1)) \div 2
          THEN [pc |-> "done", n |-> distmat.n, test |-> distmat.test,
                calls |-> distmat.calls, vals |-> distmat.vals, mat |-> <<>>,
                returned |-> "None"]
          ELSE [pc |-> "done", n |-> distmat.n, test |-> distmat.test,
                calls |-> distmat.calls, vals |-> distmat.vals,
                mat |-> MatrixOf(distmat.n, distmat.test, distmat.vals),
                returned |-> "mat"]
    /\ UNCHANGED <<invVars, batchVars, surfVars, descVars, meshVars, clustering>>

NextDistMat ==
    \/ MakeCombinations
    \/ WhileBatch
    \/ RunTest
    \/ TakeResult
    \/ NextBatchOf
    \/ BuildMatrix

SpecDistMat == InitDistMat /\ [][NextDistMat]_vars

-----------------------------------------------------------------------------
(* src/calc.py: cluster *)

\* the number of flat clusters asked of fcluster(Z, 4, criterion='maxclust')
MaxClust == 4

\* largest number of names
MaxNames == 4

\* what fcluster may return for n points: a label for every point, the
\* labels used being 1..k for some k of at most MaxClust
FlatClusters(n) ==
    {cl \in [1..n -> 1..Min2(n, MaxClust)] :
        \A lab \in 1..Min2(n, MaxClust) :
            (\E x \in 1..n : cl[x] = lab) \/ (\A x \in 1..n : cl[x] < lab)}

\* max(clusters)
MaxLabel(clusters) ==
    CHOOSE lab \in {clusters[x] : x \in 1..Len(clusters)} :
        \A x \in 1..Len(clusters) : clusters[x] <= lab

\* [names[x] for x in range(nclusters) if clusters[x] == i]
RECURSIVE NamesWith(_, _, _, _)
NamesWith(names, clusters, i, x) ==
    IF x > Len(clusters) THEN <<>>
    ELSE (IF clusters[x] = i THEN <<names[x]>> ELSE <<>>)
             \o NamesWith(names, clusters, i, x + 1)

\* c after  for i in range(1, num): c.append([...])
ClusterLists(names, clusters, num) ==
    [i \in 1..(num - 1) |-> NamesWith(names, clusters, i, 1)]

InitCluster ==
    /\ IdleInvariants
    /\ IdleBatch
    /\ IdleSurface
    /\ IdleDescription
    /\ IdleMesh
    /\ distmat = [pc |-> "idle"]
    /\ \E n \in 1..MaxNames : \E cl \in FlatClusters(n) : \E square \in BOOLEAN :
          clustering = [pc |-> "start", names |-> [x \in 1..n |-> x],
                        square |-> square, clusters |-> cl]

\* one call of cluster: squareform rejects a matrix that is no distance
\* matrix and nothing is written; otherwise the lists of the flat clusters
\* are written to clusters.txt
Cluster ==
    /\ clustering.pc = "start"
    /\ clustering' =
          IF ~clustering.square
          THEN [clustering EXCEPT !.pc = "done"] @@ [written |-> FALSE, c |-> <<>>]
          ELSE [clustering EXCEPT !.pc = "done"] @@
               [written |-> TRUE,
                c |-> ClusterLists(clustering.names, clustering.clusters,
                                   MaxLabel(clustering.clusters))]
    /\ UNCHANGED <<invVars, batchVars, surfVars, descVars, meshVars, distmat>>

NextCluster == Cluster

SpecCluster == InitCluster /\ [][NextCluster]_vars

-----------------------------------------------------------------------------
(* decompose.main: the batch run over the files of a directory *)

\* number of files the glob finds
NumPaths == 3

\* args.jobs, the workers of the ProcessPoolExecutor
Jobs == 2

Paths == 1..NumPaths

Completed(p) == jobs[p] \in {"done", "failed"}

Running == {p \in Paths : jobs[p] = "running"}

Pending == {p \in Paths : jobs[p] = "pending"}

\* as_completed(futures) is exhausted once it has yielded every future;
\* faulty variant: the loop stops after the first completed future
LoopExhaustedFirst == yielded # {}

LoopExhausted == yielded = Paths

InitBatch ==
    /\ IdleInvariants
    /\ IdleSurface
    /\ IdleDescription
    /\ IdleMesh
    /\ IdleCalc
    /\ fails \in SUBSET Paths
    /\ jobs = [p \in Paths |-> "unsubmitted"]
    /\ mainpc = "submit"
    /\ yielded = {}
    /\ shapes = <<>>
    /\ output = [written |-> FALSE, shapes |-> <<>>]

\* futures = [executor.submit(surface_description, str(path)) for path in paths]
Submit ==
    /\ mainpc = "submit"
    /\ IF \E p \in Paths : jobs[p] = "unsubmitted"
       THEN LET p == CHOOSE q \in Paths :
                        /\ jobs[q] = "unsubmitted"
                        /\ \A r \in Paths : jobs[r] = "unsubmitted" => q <= r
            IN  /\ jobs' = [jobs EXCEPT ![p] = "pending"]
                /\ mainpc' = mainpc
       ELSE /\ mainpc' = "collect"
            /\ jobs' = jobs
    /\ UNCHANGED <<fails, yielded, shapes, output, invVars, surfVars, descVars, meshVars, calcVars>>

\* a free worker process takes the oldest queued work item
WorkerStart(p) ==
    /\ jobs[p] = "pending"
    /\ \A q \in Pending : p <= q
    /\ Cardinality(Running) < Jobs
    /\ jobs' = [jobs EXCEPT ![p] = "running"]
    /\ UNCHANGED <<fails, mainpc, yielded, shapes, output, invVars, surfVars, descVars, meshVars, calcVars>>

\* surface_description returns a Shape or raises; the future keeps either
WorkerFinish(p) ==
    /\ jobs[p] = "running"
    /\ jobs' = [jobs EXCEPT ![p] = IF p \in fails THEN "failed" ELSE "done"]
    /\ UNCHANGED <<fails, mainpc, yielded, shapes, output, invVars, surfVars, descVars, meshVars, calcVars>>

\* one turn of  for f in as_completed(futures): shapes.append(f.result())
\* f.result() re-raises the exception of a failed job inside main
Collect(p) ==
    /\ mainpc = "collect"
    /\ ~LoopExhausted
    /\ Completed(p)
    /\ p \notin yielded
    /\ yielded' = yielded \cup {p}
    /\ IF jobs[p] = "done"
       THEN /\ shapes' = Append(shapes, p)
            /\ mainpc' = mainpc
       ELSE /\ shapes' = shapes
            /\ mainpc' = "unwind"
    /\ UNCHANGED <<fails, jobs, output, invVars, surfVars, descVars, meshVars, calcVars>>

\* leaving the with block: executor.shutdown(wait=True) returns once the
\* submitted work has run; then main goes on, or the exception propagates
ExitPool ==
    /\ \/ mainpc = "collect" /\ LoopExhausted
       \/ mainpc = "unwind"
    /\ \A p \in Paths : Completed(p)
    /\ mainpc' = IF mainpc = "unwind" THEN "raised" ELSE "dump"
    /\ UNCHANGED <<fails, jobs, yielded, shapes, output, invVars, surfVars, descVars, meshVars, calcVars>>

\* pickle.dump(shapes, f)
Dump ==
    /\ mainpc = "dump"
    /\ output' = [written |-> TRUE, shapes |-> shapes]
    /\ mainpc' = "finished"
    /\ UNCHANGED <<fails, jobs, yielded, shapes, invVars, surfVars, descVars, meshVars, calcVars>>

NextBatch ==
    \/ Submit
    \/ \E p \in Paths : WorkerStart(p)
    \/ \E p \in Paths : WorkerFinish(p)
    \/ \E p \in Paths : Collect(p)
    \/ ExitPool
    \/ Dump

SpecBatch == InitBatch /\ [][NextBatch]_vars

\* how often path p occurs in a list of shapes
Occurrences(list, p) == Cardinality({k \in 1..Len(list) : list[k] = p})

-----------------------------------------------------------------------------
(* C1: make_invariants returns at every index l in 0..L exactly the sum    *)
(* over m in -l..l of |coefficient(l,m)|^2, with no contribution from a    *)
(* coefficient of another degree.                                          *)
C1_PowerPerDegree ==
    invariants["orig"] # NoValue =>
        \A l \in 0..(IntSqrt(Len(coefficients)) - 1) :
            invariants["orig"][l + 1] = DegreePower(coefficients, l)

(* C2: two coefficient vectors that differ by a rotation of the surface    *)
(* (a mixing within each degree that keeps the degree's sum of |c|^2) get  *)
(* the same invariant vector.                                              *)
C2_RotationInvariant ==
    (invariants["orig"] # NoValue /\ invariants["rot"] # NoValue) =>
        invariants["orig"] = invariants["rot"]

-----------------------------------------------------------------------------
(* Quantities of the input mesh, computed from the file alone *)

\* radius of every vertex about the mean vertex position
MeshRadii == NormsOf(Recentered(mesh.verts))

MeshMeanRadius == MeanOf(MeshRadii)

\* unit direction of vertex v about the mean vertex position
DirectionsOf(pts, radii) ==
    Arr([v \in 1..Len(pts) |->
            <<RDiv(pts[v][1], radii[v]), RDiv(pts[v][2], radii[v]),
              RDiv(pts[v][3], radii[v])>>])

DirectionsAbout(pts) == DirectionsOf(pts, NormsOf(pts))

MeshDirections == DirectionsAbout(Recentered(mesh.verts))

\* in the directions dirs, vertex v is as near to grid direction g as any
\* vertex that has a direction
IsNearestVertex(dirs, v, g) ==
    /\ VecFinite(dirs[v])
    /\ \A w \in 1..Len(dirs) : VecFinite(dirs[w]) =>
          RLe(SqDist(dirs[v], GridCartesian[g]), SqDist(dirs[w], GridCartesian[g]))

\* least and greatest element of a non-empty set of finite rationals
LeastOf(S) == CHOOSE x \in S : \A y \in S : RLe(x, y)
GreatestOf(S) == CHOOSE x \in S : \A y \in S : RLe(y, x)

MeshProps == {mesh.prop[i] : i \in 1..Len(mesh.verts)}

\* the property values of the vertices some grid direction chose
SampledProps == {mesh.prop[surf.nn[g]] : g \in GridIdx}

Returned == surf.status = "returned"

\* a face of the file names a vertex outside 1..n (0..n-1 after the - 1)
FaceOutOfRange ==
    \E f \in 1..Len(mesh.faces) : \E k \in 1..3 :
        mesh.faces[f][k] - 1 \notin 0..(Len(mesh.verts) - 1)

(* C4: on a mesh whose mean vertex radius after recentering is zero        *)
(* sht_isosurface fails with an error, and nothing it returns as a         *)
(* successful result holds a NaN or Inf scalar, sample or coefficient.     *)
C4_ZeroRadiusFails ==
    /\ (MeshMeanRadius = RZero /\ surf.status # "ready") => surf.status = "raised"
    /\ Returned =>
          /\ \A k \in 1..3 : IsFinite(surf.others[k])
          /\ \A g \in GridIdx : IsFinite(Re(surf.combined[g])) /\ IsFinite(Im(surf.combined[g]))
          /\ \A p \in 1..Len(surf.coefficients) :
                IsFinite(Re(surf.coefficients[p])) /\ IsFinite(Im(surf.coefficients[p]))

C4_Witness ==
    /\ MeshMeanRadius = RZero
    /\ surf.status = "raised"
    /\ surf.error = "IndexError"

\* the recorded minimum is lo and the recorded range hi - lo, and every grid
\* sample's imaginary part is (property of its vertex - lo) / (hi - lo);
\* with zeroIfFlat it is 0 when hi = lo, otherwise that case is left open
MinRangeAre(lo, hi, zeroIfFlat) ==
    /\ surf.others[2] = lo
    /\ surf.others[3] = RSub(hi, lo)
    /\ \A g \in GridIdx :
          IF hi = lo
          THEN zeroIfFlat => Im(surf.combined[g]) = RZero
          ELSE Im(surf.combined[g]) =
                  RDiv(RSub(mesh.prop[surf.nn[g]], lo), RSub(hi, lo))

(* C5 as claimed: the recorded property minimum and range are the minimum  *)
(* and max - min of the property over all vertices of the mesh, and every  *)
(* grid sample's imaginary part is (property of its vertex - that minimum) *)
(* / that range.                                                           *)
C5_MinRangeOverMesh ==
    Returned => MinRangeAre(LeastOf(MeshProps), GreatestOf(MeshProps), FALSE)

(* C5 amended: the recorded property minimum and range are the minimum and *)
(* max - min of the property over the vertices chosen as nearest neighbour *)
(* of some grid direction, and every grid sample's imaginary part is       *)
(* (property of its vertex - that minimum) / that range, or 0 when that    *)
(* range is 0.                                                             *)
C5_MinRangeOverSamples ==
    Returned => MinRangeAre(LeastOf(SampledProps), GreatestOf(SampledProps), TRUE)

\* a vertex that has a direction, is the sample of no grid direction and
\* carries a property below lo
UnsampledBelow(dirs, lo) ==
    \E v \in 1..Len(mesh.verts) :
        /\ VecFinite(dirs[v])
        /\ \A g \in GridIdx : surf.nn[g] # v
        /\ RLt(mesh.prop[v], lo)

C5_Witness ==
    /\ Returned
    /\ UnsampledBelow(MeshDirections, LeastOf(SampledProps))
    /\ GreatestOf(SampledProps) # LeastOf(SampledProps)

(* C6: for a property constant over the mesh sht_isosurface records the    *)
(* range 0 and the constant as minimum, and the property channel handed to *)
(* the transform is 0 at every grid sample (the division by the range is   *)
(* skipped, no NaN arises).                                                *)
C6_ConstantProperty ==
    (Returned /\ Cardinality(MeshProps) = 1) =>
        /\ surf.others[3] = RZero
        /\ \A v \in 1..Len(mesh.verts) : surf.others[2] = mesh.prop[v]
        /\ \A g \in GridIdx : Im(surf.combined[g]) = RZero

C6_Witness ==
    /\ Returned
    /\ Cardinality(MeshProps) = 1
    /\ Len(mesh.verts) >= 2
    /\ surf.others[2] # RZero

\* at every grid sample the colour mapping gives the property of the vertex
\* sampled there and the radius times the mean radius gives its radius
InvertsTo(radii) ==
    \A g \in GridIdx :
        /\ ColorOf(surf.combined[g], surf.others[2], surf.others[3])
              = mesh.prop[surf.nn[g]]
        /\ RMul(RadiusOf(surf.combined[g]), surf.others[1])
              = radii[surf.nn[g]]

(* C7: the stored scalars invert both normalisations: at every grid sample *)
(* the colour mapping value * range + minimum of reconstruct_surface,      *)
(* applied to the normalised property, gives the property sampled there    *)
(* (also for range 0), and the radius reconstruct_surface takes from the   *)
(* sample, times the recorded mean radius, gives the radius sampled there. *)
C7_ScalarsInvert == Returned => InvertsTo(MeshRadii)

C7_Witness ==
    /\ Returned
    /\ recon.done
    /\ surf.others[1] # RInt(1)
    /\ surf.others[2] # RZero
    /\ surf.others[3] # RZero
    /\ \E g \in GridIdx : Im(surf.combined[g]) \notin {RZero, RInt(1)}

(* C8: sht_isosurface rejects with an error a mesh in which a face index   *)
(* lies outside the range of vertex indices.                               *)
C8_BadFaceRejected ==
    (FaceOutOfRange /\ surf.status # "ready") => surf.status = "raised"

\* one entry per grid direction, each the normalised radius and property
\* of one vertex nearest to the direction
SamplesOneVertex(radii, mean, dirs) ==
    /\ Len(surf.combined) = NGrid
    /\ \A g \in GridIdx :
          \E v \in 1..Len(mesh.verts) :
             /\ IsNearestVertex(dirs, v, g)
             /\ Re(surf.combined[g]) = RDiv(radii[v], mean)
             /\ Im(surf.combined[g]) =
                   IF surf.others[3] = RZero THEN RZero
                   ELSE RDiv(RSub(mesh.prop[v], surf.others[2]),
                             surf.others[3])

\* some grid direction has one nearest vertex only, and two vertices differ
\* in radius and in property
Distinguishes(radii, dirs) ==
    /\ \E g \in GridIdx :
          Cardinality({v \in 1..Len(dirs) : IsNearestVertex(dirs, v, g)}) = 1
    /\ \E v, w \in 1..Len(dirs) :
          radii[v] # radii[w] /\ mesh.prop[v] # mesh.prop[w]

(* C9: the sampled function has one entry per grid direction, and the      *)
(* entry of direction g carries the normalised radius and the (normalised) *)
(* property of one single vertex, a vertex whose unit direction is nearest *)
(* to g; grid directions may share a vertex.                               *)
C9_SingleNearestVertex ==
    Returned => SamplesOneVertex(MeshRadii, MeshMeanRadius, MeshDirections)

C9_Witness ==
    /\ Returned
    /\ Len(mesh.verts) = 3
    /\ \E g, h \in GridIdx : g # h /\ surf.nn[g] = surf.nn[h]
    /\ Distinguishes(MeshRadii, MeshDirections)

(* C11: for every coefficient vector of length (L+1)^2 make_invariants    *)
(* returns exactly L+1 values, and each of them is >= 0.                   *)
C11_LengthAndSign ==
    \A w \in {"orig", "rot"} :
        invariants[w] # NoValue =>
            \E L \in 0..MaxL :
                /\ Len(coefficients) = NumCoef(L)
                /\ Len(invariants[w]) = L + 1
                /\ \A k \in 1..(L + 1) : RLe(RZero, invariants[w][k])

C11_Witness ==
    /\ invariants["orig"] # NoValue
    /\ Len(coefficients) = NumCoef(MaxL)
    /\ \A k \in 1..Len(invariants["orig"]) : RLt(RZero, invariants["orig"][k])
    /\ invariants["orig"][1] # invariants["orig"][Len(invariants["orig"])]

\* the vertices of the file have their mean at the origin and mean radius 1
AlreadyNormalized ==
    /\ \A k \in 1..3 : RSum(Column(mesh.verts, k)) = RZero
    /\ RSum(NormsOf(mesh.verts)) = RInt(Len(mesh.verts))

(* C12: for a mesh whose vertex mean is the origin and whose mean vertex   *)
(* radius is 1, the recentering and rescaling of sht_isosurface leave      *)
(* every vertex position unchanged and the mean radius reported is 1.      *)
C12_NormalizedUnchanged ==
    (mesh # <<>> /\ AlreadyNormalized) =>
        /\ Normalize(mesh.verts).pts = mesh.verts
        /\ Normalize(mesh.verts).mean_norm = RInt(1)
        /\ Returned => surf.others[1] = RInt(1)

C12_Witness ==
    /\ Returned
    /\ AlreadyNormalized
    /\ Len(mesh.verts) >= 2

\* the stem of every file name tried, written out
FileStems ==
    [f \in FileNames |->
        IF f = <<"a", ".", "s">> THEN <<"a">>
        ELSE IF f = <<".", "h">> THEN <<".", "h">>
        ELSE <<"b", ".", "t">>]

\* vec is the three scalars others followed by the L+1 values inv
LaidOut(vec, others, inv, L) ==
    /\ Len(surf.coefficients) = NumCoef(L)
    /\ Len(vec) = L + 4
    /\ \A k \in 1..3 : vec[k] = others[k]
    /\ \A l \in 0..L : vec[l + 3 + 1] = inv[l + 1]

(* C13: surface_description returns a Shape whose name is the file stem    *)
(* and whose vector is the mean radius, the property minimum and the       *)
(* property range, in that order, followed by the L+1 values of            *)
(* make_invariants in their order: its length is L+4 and the value of      *)
(* degree l is at index l+3 (counted from 0).                              *)
C13_ShapeLayout ==
    description.status = "returned" =>
        /\ description.name = FileStems[sbf_file]
        /\ LaidOut(description.invariants, surf.others,
                   make_invariants(surf.coefficients),
                   IntSqrt(Len(surf.coefficients)) - 1)

C13_Witness ==
    /\ description.status = "returned"
    /\ Len(sbf_file) > Len(description.name) + 2
    /\ Cardinality({description.invariants[k] : k \in 1..Len(description.invariants)}) =
          Len(description.invariants)

\* only the degree-0 term of the coefficient vector c is nonzero
OnlyDegreeZero(c) == c[1] # CZero /\ \A p \in 2..Len(c) : c[p] = CZero

\* one vertex per grid direction, each the real part of the synthesized
\* value field[g] times the unit direction g
AlongDirections(field) ==
    /\ Len(recon.verts) = NGrid
    /\ \A g \in GridIdx :
          \A k \in 1..3 :
             recon.verts[g][k] = RMul(Re(field[g]), GridCartesian[g][k])

\* every vertex lies at the distance whose square is sq from the origin
AllAtSquaredDistance(sq) == \A g \in GridIdx : SqNorm(recon.verts[g]) = sq

(* C14 as claimed: reconstruct_surface returns one vertex per grid         *)
(* direction, along that direction at the real part of the synthesized     *)
(* value, and for a coefficient vector with only the degree-0 term nonzero *)
(* every vertex lies at the distance r0, the magnitude of that term.       *)
C14_DistanceIsMagnitude ==
    recon.done =>
        /\ AlongDirections(synthesis(surf.coefficients))
        /\ OnlyDegreeZero(surf.coefficients) =>
              AllAtSquaredDistance(AbsSq(surf.coefficients[1]))

(* C14 amended: reconstruct_surface returns one vertex per grid direction, *)
(* along that direction at the real part of the synthesized value, and for *)
(* a coefficient vector with only the degree-0 term nonzero every vertex   *)
(* lies at the same distance |r0|, r0 the real part of that term.          *)
C14_DistanceIsRealPart ==
    recon.done =>
        /\ AlongDirections(synthesis(surf.coefficients))
        /\ OnlyDegreeZero(surf.coefficients) =>
              AllAtSquaredDistance(RMul(Re(surf.coefficients[1]),
                                        Re(surf.coefficients[1])))

C14_Witness ==
    /\ recon.done
    /\ OnlyDegreeZero(surf.coefficients)
    /\ Re(surf.coefficients[1]) # RZero
    /\ Im(surf.coefficients[1]) # RZero
    /\ \E g \in GridIdx : SqNorm(recon.verts[g]) # AbsSq(surf.coefficients[1])

\* along axis k the lattice of m voxels spans the cube from -r to r, the
\* subtracted center is the middle m/2 of the voxel range, and the vertex
\* at a voxel index comes out at the coordinate inside gave that voxel
AxisAligned(k, m) ==
    /\ voxels.coords[k][1] = RNeg(voxels.r)
    /\ RAdd(voxels.coords[k][m], voxels.sep[k]) = voxels.r
    /\ RDiv(voxels.center[k], voxels.sep[k]) = Rat(m, 2)
    /\ \A x \in 0..(m - 1) :
          /\ RSub(RMul(RInt(x), voxels.sep[k]), voxels.center[k])
                = voxels.coords[k][x + 1]
          /\ voxels.v[k] = RInt(x) => voxels.vert[k] = voxels.coords[k][x + 1]

(* C15: in construct_surface with resolution (M, N, P) and half-extent r   *)
(* the voxel lattice spans the cube from -r to r about the origin, the     *)
(* center subtracted is the middle of the voxel range, and a vertex at     *)
(* voxel coordinate v on an axis is mapped to the coordinate at which      *)
(* inside sampled the voxel of index v on that axis.                       *)
C15_LatticeAligned ==
    voxels.pc = "done" => \A k \in 1..3 : AxisAligned(k, voxels.vol[k])

C15_Witness ==
    /\ voxels.pc = "done"
    /\ voxels.vol[1] # voxels.vol[2]
    /\ voxels.vol[3] = MaxRes
    /\ voxels.r # Rat(3, 2)
    /\ \A k \in 1..3 : voxels.v[k] = RInt(voxels.vol[k] - 1)
    /\ voxels.vert[3] # RZero

\* the tests run so far are the first pairs of c, each once and in order,
\* and the results collected so far are their values
RunInOrder(c) ==
    /\ Len(distmat.calls) <= Len(c)
    /\ distmat.calls = SubSeq(c, 1, Len(distmat.calls))
    /\ Len(distmat.vals) <= Len(distmat.calls)
    /\ \A k \in 1..Len(distmat.vals) :
          distmat.vals[k] = TestValue(distmat.test, c[k])

\* while the loop runs no batch holds more than 100 pairs; once it is
\* over every pair has been run and there are n(n-1)/2 results
BatchesSound ==
    /\ distmat.pc \in {"while", "map"} => Len(distmat.batch) <= 100
    /\ distmat.pc \in {"while", "map", "matrix", "done"} =>
          RunInOrder(Combinations(distmat.n))
    /\ distmat.pc \in {"matrix", "done"} =>
          /\ Len(distmat.calls) = (distmat.n * (distmat.n - 1)) \div 2
          /\ Len(distmat.vals) = (distmat.n * (distmat.n - 1)) \div 2

\* what is left to do position by position: 0 once get_dist_mat is done
PcRank(d) ==
    IF d.pc = "done" THEN 0
    ELSE IF d.pc = "matrix" THEN 1
    ELSE IF d.pc = "while" THEN 2
    ELSE IF d.taken = Len(d.batch) THEN 3
    ELSE 1

\* a bound on the steps get_dist_mat has left, p the number of pairs
RankOf(d, p) ==
    IF d.pc = "start" THEN 5 * p + 3
    ELSE IF d.pc \in {"matrix", "done"} THEN PcRank(d)
    ELSE 4 * (p - Len(d.vals)) + (p - Len(d.calls)) + PcRank(d)

Rank(d) == RankOf(d, (d.n * (d.n - 1)) \div 2)

\* a step of get_dist_mat up to the end of the batching loop
LoopStep ==
    MakeCombinations \/ WhileBatch \/ RunTest \/ TakeResult \/ NextBatchOf

(* C18: the batching loop of get_dist_mat runs the test on every unordered *)
(* pair of values exactly once, in combinations order and in batches of at *)
(* most 100 pairs, skips or repeats no pair at a batch boundary, and, no   *)
(* test call raising or timing out, terminates with n(n-1)/2 results:      *)
(* every step lowers a bound on the steps left, and the call can take a    *)
(* step until the loop is over.                                            *)
C18_EveryPairOnce ==
    /\ []BatchesSound
    /\ [](distmat.pc \in {"start", "while", "map"} => ENABLED LoopStep)
    /\ [][Rank(distmat') < Rank(distmat)]_vars

C18_Witness ==
    /\ distmat.pc = "done"
    /\ distmat.n = MaxN
    /\ Len(distmat.vals) > 100
    /\ distmat.calls[101] = Combinations(distmat.n)[101]

\* the distance of a pair: the test's own value for hdistance, 1 - the
\* correlation rounded to 5 decimals for spearman_roc and kendall_tau
DistanceOf(test, pair) ==
    IF test = "hdistance" THEN TestValue(test, pair)
    ELSE RSub(RInt(1), Round5(TestValue(test, pair)))

(* C16: get_dist_mat returns an N x N symmetric matrix of the distances    *)
(* between the N values: for every i < j the entries (i,j) and (j,i) both  *)
(* equal the distance of the pair (values[i], values[j]), and every        *)
(* diagonal entry is 0.                                                    *)
C16_DistanceMatrix ==
    distmat.pc = "done" =>
        /\ distmat.returned = "mat"
        /\ Len(distmat.mat) = distmat.n
        /\ \A r \in 1..distmat.n :
              /\ Len(distmat.mat[r]) = distmat.n
              /\ distmat.mat[r][r] = RZero
              /\ \A c \in (r + 1)..distmat.n :
                    /\ distmat.mat[r][c] = DistanceOf(distmat.test, <<r, c>>)
                    /\ distmat.mat[c][r] = DistanceOf(distmat.test, <<r, c>>)

\* how often name appears in the written cluster lists
TimesWritten(name) ==
    Cardinality({<<i, k>> \in (1..Len(clustering.c)) \X (1..MaxNames) :
                    k <= Len(clustering.c[i]) /\ clustering.c[i][k] = name})

(* C17: the cluster lists that cluster writes partition the input: every   *)
(* name of names appears in exactly one of the written lists, whatever     *)
(* number of clusters fcluster assigns.                                    *)
C17_ClustersPartition ==
    (clustering.pc = "done" /\ clustering.written) =>
        \A x \in 1..Len(clustering.names) :
            TimesWritten(clustering.names[x]) = 1

(* C3: when surface_description fails for one submitted file, the        *)
(* results of every other file are still collected and written, the batch  *)
(* is not aborted.                                                         *)
C3_SiblingsWritten ==
    mainpc \in {"finished", "raised"} =>
        /\ output.written
        /\ \A p \in Paths \ fails : Occurrences(output.shapes, p) = 1

(* C10: the output is written only after every submitted job has          *)
(* completed, never while a job is pending or running; when every job      *)
(* succeeds the written list holds exactly one Shape per input path.       *)
C10_WriteAfterBarrier ==
    output.written =>
        /\ \A p \in Paths : Completed(p)
        /\ (\A p \in Paths : jobs[p] = "done") =>
                /\ Len(output.shapes) = NumPaths
                /\ \A p \in Paths : Occurrences(output.shapes, p) = 1

C10_Witness ==
    /\ output.written
    /\ Len(output.shapes) = NumPaths
    /\ NumPaths >= 2
    /\ output.shapes[1] > output.shapes[2]

====
